---- MODULE Spec2Model ----
(***************************************************************************)
(* Library-management REST backend: the borrow / return / fine workflow    *)
(* and the payment-verification flow of the Express server, over the       *)
(* Book, Transaction and Payment schemas.                                  *)
(*                                                                         *)
(* Every route handler is an async function; it is modelled as one action  *)
(* per segment between two database operations (the awaits), so that the   *)
(* segments of different requests interleave the way the event loop lets   *)
(* them.  Request slots hold each running handler's local variables.       *)
(*                                                                         *)
(* Strings are sequences of one-character strings.  Dates are integers in  *)
(* milliseconds of a scaled-down clock whose day has DayMs milliseconds.   *)
(***************************************************************************)
EXTENDS Integers, Sequences, FiniteSets

(* ------------------------------ bounds --------------------------------- *)

MaxBooks == 1
MaxTxns == 2
MaxPayments == 1
MaxReqs == 2
MaxNow == 2
\* length of the scaled day, standing for 1000 * 60 * 60 * 24
DayMs == 2
\* length of the scaled month (local-time calendar used by getDate/setDate)
MonthDays == 2

(* ------------------------- program constants --------------------------- *)

DefaultDays == 14
FineRate == 5

(* ------------------------------ values --------------------------------- *)

Undefined == <<"undefined">>
NoDate == -1
NoId == 0
UpiId == <<"raitlibrary@axisbank">>
General == <<"General">>

Reqs == 1..MaxReqs

Max(a, b) == IF a >= b THEN a ELSE b

\* faulty variant: only an absent value counts as missing
FalsyAbsentOnly(v) == v = Undefined

\* JavaScript truthiness of a string-or-undefined value: !v
Falsy(v) == v = Undefined \/ v = <<>>

\* JavaScript ToNumber of a boolean, as used by `<=` and `-=` on it
ToNumber(b) == IF b THEN 1 ELSE 0

\* Mongoose String `trim: true` setter (String.prototype.trim)
RECURSIVE TrimLeft(_)
TrimLeft(s) ==
  IF s = <<>> THEN s
  ELSE IF Head(s) = " " THEN TrimLeft(Tail(s)) ELSE s

RECURSIVE TrimRight(_)
TrimRight(s) ==
  IF s = <<>> THEN s
  ELSE IF s[Len(s)] = " " THEN TrimRight(SubSeq(s, 1, Len(s) - 1)) ELSE s

Trim(s) == IF s = Undefined THEN s ELSE TrimRight(TrimLeft(s))

\* Mongoose `required: true` on a String path: undefined and "" are missing
Missing(v) == v = Undefined \/ v = <<>>


(* ------------------------------- dates --------------------------------- *)

\* Date.prototype.getDate: day of the month (1-based), local time = clock time
getDate(t) == ((t \div DayMs) % MonthDays) + 1

\* Date.prototype.setDate(n): day n of t's month, same time of day; n beyond
\* the month's days (or below 1) rolls over linearly into neighbouring months
setDate(t, n) == t + (n - getDate(t)) * DayMs

\* faulty variant: the floor without the max
DaysLateUnclamped(returnDate, dueDate) == (returnDate - dueDate) \div DayMs

\* Math.max(0, Math.floor((returnDate - dueDate) / (1000 * 60 * 60 * 24)))
DaysLateOf(returnDate, dueDate) == Max(0, (returnDate - dueDate) \div DayMs)

\* faulty variant: a fine that does not grow with the days
FineFlat(daysLate) == FineRate

FineOf(daysLate) == daysLate * FineRate

\* faulty variant: a late return marked overdue
StatusOfOverdue(daysLate) == IF daysLate > 0 THEN "overdue" ELSE "returned"

\* transaction.status = daysLate > 0 ? 'returned_late' : 'returned'
StatusOf(daysLate) == IF daysLate > 0 THEN "returned_late" ELSE "returned"

(* ------------------------------- state --------------------------------- *)

VARIABLES
  isDBConnected,  \* the process-wide connection flag
  now,            \* the clock read by new Date() / Date.now()
  books,          \* the Book collection, in insertion order; _id = index
  transactions,   \* the Transaction collection; _id = index
  payments,       \* the Payment collection; _id = index
  req             \* the running / finished handlers and their local variables

vars == <<isDBConnected, now, books, transactions, payments, req>>

NoDoc == [none |-> TRUE]

\* a slot: the route (op), the segment to run next (pc), the id the request
\* names (id), the destructured body of the request or of the response
\* (body), the document
\* as loaded (orig) and as the handler holds it (doc), the _id of the document
\* the handler inserted (tid), the number of transactions when it started
\* (n0), and the response (resp, error)
IdleReq ==
  [op |-> "none", pc |-> "idle", id |-> NoId, body |-> NoDoc, orig |-> NoDoc,
   doc |-> NoDoc, tid |-> NoId, n0 |-> 0, resp |-> 0, error |-> ""]

Running(r) == req[r].pc \notin {"idle", "done"}
InFlight == Cardinality({r \in Reqs : Running(r)})

\* a request is taken by the lowest slot that runs no handler
Free(r) == ~Running(r) /\ \A q \in Reqs : q < r => Running(q)

\* the local variables of a handler that starts
Begin(r, op, id) == [IdleReq EXCEPT !.op = op, !.id = id]

\* a response is on record until the next step of the server
Forget == [q \in Reqs |-> IF req[q].pc = "done" THEN IdleReq ELSE req[q]]

\* the handler in slot r moves on to s
Step(r, s) == [q \in Reqs |-> IF q = r THEN s ELSE Forget[q]]

\* res.status(code).json({success: false, error}) or res.json({success: true});
\* the handler's documents end with it, the request and its response remain
Respond(s, code, error) ==
  [IdleReq EXCEPT !.op = s.op, !.id = s.id, !.body = s.body, !.tid = s.tid,
                  !.pc = "done", !.resp = code, !.error = error]

\* faulty variant: a missing document reported as a server error
NotFoundAsError(s, error) == Respond(s, 500, error)

\* if (!doc) return res.status(404).json({success: false, error})
NotFound(s, error) == Respond(s, 404, error)

\* faulty variant: a failure answered as a success
ServerErrorOk(s, error) == Respond(s, 200, error)

\* catch (error) { res.status(500).json({success: false, error: error.message}) }
ServerError(s, error) == Respond(s, 500, error)

\* Model.findById: the stored document, if any
Exists(coll, id) == id \in 1..Len(coll)

\* document.save() of a loaded document: $set of the modified paths only
SaveModified(stored, orig, doc) ==
  [f \in DOMAIN stored |-> IF doc[f] # orig[f] THEN doc[f] ELSE stored[f]]

Init ==
  /\ isDBConnected = FALSE
  /\ now = 0
  /\ books = <<>>
  /\ transactions = <<>>
  /\ payments = <<>>
  /\ req = [r \in Reqs |-> IdleReq]

(* --------------------- connection state and clock ---------------------- *)

\* mongoose.connect(...).then(...)
ConnectResolved ==
  /\ isDBConnected' = TRUE
  /\ req' = Forget
  /\ UNCHANGED <<now, books, transactions, payments>>

\* mongoose.connection.on('connected')
ConnectedEvent ==
  /\ isDBConnected' = TRUE
  /\ req' = Forget
  /\ UNCHANGED <<now, books, transactions, payments>>

\* mongoose.connection.on('error')
ErrorEvent ==
  /\ isDBConnected' = FALSE
  /\ req' = Forget
  /\ UNCHANGED <<now, books, transactions, payments>>

Tick ==
  /\ now < MaxNow
  /\ now' = now + 1
  /\ req' = Forget
  /\ UNCHANGED <<isDBConnected, books, transactions, payments>>

(* ------------------------------ inputs --------------------------------- *)

\* req.body.title / author: absent, empty, blank, and a name with padding
Titles == {Undefined, <<" ">>, <<"T", " ">>}
Authors == {<<>>, <<"A">>}
Isbns == {Undefined, <<"1">>}

\* req.body.studentId / studentName / studentDepartment
Students ==
  { [studentId |-> <<"s">>, name |-> <<"n">>, department |-> <<"d">>],
    [studentId |-> <<"s">>, name |-> <<"n">>, department |-> Undefined] }

\* req.body.days: absent (<<>>) or a number
DaysInputs == {<<>>, <<0>>}

BookIds == 1..(MaxBooks + 1)
TxnIds == 1..(MaxTxns + 1)
PaymentIds == 1..(MaxPayments + 1)

(* ------------------------------- books --------------------------------- *)

\* new Book({title, author, isbn, genre}): setters and defaults of bookSchema
NewBook(title, author, isbn) ==
  [title |-> Trim(title), author |-> Trim(author), isbn |-> Trim(isbn),
   genre |-> General, available |-> TRUE]

\* validation of bookSchema on save: title and author are required
BookValid(b) == ~Missing(b.title) /\ ~Missing(b.author)

\* the unique, sparse index on isbn
IsbnTaken(isbn) ==
  isbn # Undefined /\ \E i \in 1..Len(books) : books[i].isbn = isbn

PendingBooks == Cardinality({r \in Reqs : req[r].op = "addBook" /\ Running(r)})

\* faulty variant: the flag is not consulted
NotConnectedNever == FALSE

\* if (!isDBConnected), the first statement of both books handlers
NotConnected == ~isDBConnected

\* res.status(503).json({success: false, error: 'Database connecting, ...'})
Unavailable503(s) == Respond(s, 503, "Database connecting, please try again")

\* GET /api/books, up to the call of Book.find()
ListBooksCheck(r) ==
  /\ Free(r)
  /\ LET s == Begin(r, "listBooks", NoId) IN
     req' = Step(r, IF NotConnected THEN Unavailable503(s)
                    ELSE [s EXCEPT !.pc = "find"])
  /\ UNCHANGED <<isDBConnected, now, books, transactions, payments>>

\* await Book.find(), and the response {success, count: books.length, books}
ListBooksFind(r) ==
  /\ req[r].op = "listBooks" /\ req[r].pc = "find"
  /\ req' = Step(r, Respond([req[r] EXCEPT
                               !.body = [count |-> Len(books), books |-> books]],
                            200, ""))
  /\ UNCHANGED <<isDBConnected, now, books, transactions, payments>>

\* POST /api/books, up to the call of newBook.save()
AddBookCheck(r) ==
  /\ Free(r)
  /\ \E title \in Titles, author \in Authors, isbn \in Isbns :
       LET s == [Begin(r, "addBook", NoId) EXCEPT
                   !.body = [title |-> title, author |-> author]] IN
       IF NotConnected
         THEN req' = Step(r, Unavailable503(s))
       ELSE IF Falsy(title) \/ Falsy(author)
         THEN req' = Step(r, Respond(s, 400, "Title and author are required"))
       ELSE /\ Len(books) + PendingBooks < MaxBooks
            /\ req' = Step(r, [s EXCEPT !.pc = "save",
                                  !.doc = NewBook(title, author, isbn)])
  /\ UNCHANGED <<isDBConnected, now, books, transactions, payments>>

\* await newBook.save(), and the response
AddBookSave(r) ==
  /\ req[r].op = "addBook" /\ req[r].pc = "save"
  /\ IF BookValid(req[r].doc) /\ ~IsbnTaken(req[r].doc.isbn)
       THEN /\ books' = Append(books, req[r].doc)
            /\ req' = Step(r, Respond([req[r] EXCEPT !.tid = Len(books) + 1], 201, ""))
       ELSE /\ books' = books
            /\ req' = Step(r, ServerError(req[r], "save failed"))
  /\ UNCHANGED <<isDBConnected, now, transactions, payments>>

(* ------------------------------ borrow --------------------------------- *)

\* const { days = 14 } = req.body
DaysOf(d) == IF d = <<>> THEN DefaultDays ELSE d[1]

\* new Transaction({book, student, borrowDate, dueDate}) with the schema defaults
NewTransaction(bookId, student, borrowDate, dueDate) ==
  [book |-> bookId, student |-> student, borrowDate |-> borrowDate,
   dueDate |-> dueDate, returnDate |-> NoDate, status |-> "borrowed",
   fineAmount |-> 0, finePaid |-> FALSE, finePaidDate |-> NoDate, daysLate |-> 0]

\* validation of transactionSchema on save: the student fields are required
TransactionValid(t) ==
  /\ ~Missing(t.student.studentId)
  /\ ~Missing(t.student.name)
  /\ ~Missing(t.student.department)

\* Mongoose Boolean cast of a number: only 1 and 0 convert
CanCastBoolean(n) == n \in {0, 1}
CastBoolean(n) == n = 1

\* faulty variant: the check never turns a borrow down
UnavailableNever(book) == FALSE

\* faulty variant: < for <=
UnavailableStrict(book) == ToNumber(book.available) < 0

\* if (book.available <= 0)
Unavailable(book) == ToNumber(book.available) <= 0

PendingTxns ==
  Cardinality({r \in Reqs : req[r].op = "borrow" /\ req[r].pc = "saveTxn"})

\* POST /api/transactions/borrow: Book.findById, the two checks, the two
\* clock reads and the construction of the transaction
BorrowFind(r) ==
  /\ Free(r)
  /\ \E bookId \in BookIds, student \in Students, d \in DaysInputs, dt \in {0, 1} :
       /\ now + dt <= MaxNow
       /\ LET s == [Begin(r, "borrow", bookId) EXCEPT
                      !.body = [days |-> DaysOf(d)], !.n0 = Len(transactions)] IN
          IF ~Exists(books, bookId)
            THEN /\ dt = 0
                 /\ now' = now
                 /\ req' = Step(r, NotFound(s, "Book not found"))
          ELSE IF Unavailable(books[bookId])
            THEN /\ dt = 0
                 /\ now' = now
                 /\ req' = Step(r, Respond(s, 400, "Book not available"))
          ELSE
            \* borrowDate = new Date() at now; dueDate = new Date() at now + dt
            LET borrowDate == now
                dueDate == setDate(now + dt, getDate(borrowDate) + DaysOf(d))
            IN /\ Len(transactions) + PendingTxns < MaxTxns
               /\ now' = now + dt
               /\ req' = Step(r,
                    [s EXCEPT !.pc = "saveTxn", !.orig = books[bookId],
                       !.doc = NewTransaction(bookId, student, borrowDate, dueDate)])
  /\ UNCHANGED <<isDBConnected, books, transactions, payments>>

\* await transaction.save()
BorrowSaveTxn(r) ==
  /\ req[r].op = "borrow" /\ req[r].pc = "saveTxn"
  /\ IF TransactionValid(req[r].doc)
       THEN /\ transactions' = Append(transactions, req[r].doc)
            /\ req' = Step(r, [req[r] EXCEPT !.pc = "saveBook",
                                          !.tid = Len(transactions) + 1])
       ELSE /\ transactions' = transactions
            /\ req' = Step(r, ServerError(req[r], "validation failed"))
  /\ UNCHANGED <<isDBConnected, now, books, payments>>

\* faulty variant: no decrement
DecrementNone(available) == ToNumber(available)

\* faulty variant: two copies taken
DecrementTwo(available) == ToNumber(available) - 2

\* book.available -= 1 on the loaded document
Decrement(available) == ToNumber(available) - 1

\* book.available -= 1; await book.save(); populate; the response
BorrowSaveBook(r) ==
  /\ req[r].op = "borrow" /\ req[r].pc = "saveBook"
  /\ LET n == Decrement(req[r].orig.available) IN
     IF CanCastBoolean(n)
       THEN LET book == [req[r].orig EXCEPT !.available = CastBoolean(n)] IN
            /\ books' = [books EXCEPT ![req[r].id] = SaveModified(@, req[r].orig, book)]
            /\ req' = Step(r, Respond(req[r], 200, ""))
       ELSE /\ books' = books
            /\ req' = Step(r, ServerError(req[r], "cast failed"))
  /\ UNCHANGED <<isDBConnected, now, transactions, payments>>

\* await book.save() rejects (the connection is lost, the write times out):
\* the catch block answers 500 and the book stays as it is
BorrowSaveBookFails(r) ==
  /\ req[r].op = "borrow" /\ req[r].pc = "saveBook"
  /\ req' = Step(r, ServerError(req[r], "storage failure"))
  /\ UNCHANGED <<isDBConnected, now, books, transactions, payments>>

(* ------------------------------ return --------------------------------- *)

\* faulty variant: a return that takes the settlement back
ReturnAssignUnpaid(t, returnDate) ==
  LET daysLate == DaysLateOf(returnDate, t.dueDate) IN
  [t EXCEPT !.returnDate = returnDate, !.daysLate = daysLate,
            !.fineAmount = FineOf(daysLate), !.status = StatusOf(daysLate),
            !.finePaid = FALSE]

\* the four assignments of return, from returnDate = new Date() and the
\* transaction's dueDate
ReturnAssign(t, returnDate) ==
  LET daysLate == DaysLateOf(returnDate, t.dueDate) IN
  [t EXCEPT !.returnDate = returnDate, !.daysLate = daysLate,
            !.fineAmount = FineOf(daysLate), !.status = StatusOf(daysLate)]

\* POST /api/transactions/return/:id: findById + populate, and the fine
ReturnFind(r) ==
  /\ Free(r)
  /\ \E id \in TxnIds :
       LET s == Begin(r, "return", id) IN
       req' = Step(r,
         IF ~Exists(transactions, id)
           THEN NotFound(s, "Transaction not found")
         ELSE
           [s EXCEPT !.pc = "saveTxn", !.orig = transactions[id],
              !.doc = ReturnAssign(transactions[id], now)])
  /\ UNCHANGED <<isDBConnected, now, books, transactions, payments>>

\* await transaction.save()
ReturnSaveTxn(r) ==
  /\ req[r].op = "return" /\ req[r].pc = "saveTxn"
  /\ transactions' =
       [transactions EXCEPT ![req[r].id] = SaveModified(@, req[r].orig, req[r].doc)]
  /\ req' = Step(r, [req[r] EXCEPT !.pc = "incBook"])
  /\ UNCHANGED <<isDBConnected, now, books, payments>>

\* MongoDB $inc applies to a numeric field only.  bookSchema declares
\* `available` as Boolean, so every stored value is true or false, the update
\* is rejected with an error and the document stays as it is.
IsNumeric(stored) == stored \notin BOOLEAN

\* await Book.findByIdAndUpdate(transaction.book._id, {$inc: {available: 1}})
\* and the response (the catch block answers 500)
ReturnIncBook(r) ==
  /\ req[r].op = "return" /\ req[r].pc = "incBook"
  /\ LET b == req[r].doc.book IN
     IF IsNumeric(books[b].available)
       THEN /\ books' = [books EXCEPT ![b].available = @ + 1]
            /\ req' = Step(r, Respond(req[r], 200, ""))
       ELSE /\ books' = books
            /\ req' = Step(r, ServerError(req[r], "update failed"))
  /\ UNCHANGED <<isDBConnected, now, transactions, payments>>

(* ----------------------------- payments -------------------------------- *)

\* req.body of create-upi; amount is absent (<<>>) or a number
PaymentInputs ==
  { [studentId |-> <<"s">>, studentName |-> <<"n">>, amount |-> <<5>>],
    [studentId |-> <<"s">>, studentName |-> Undefined, amount |-> <<5>>] }

\* req.body.utrNumber
UtrInputs == {Undefined, <<"U">>}

\* faulty variant: the payee taken from the request
NewPaymentPayee(transactionId, in) ==
  [transactionId |-> transactionId, studentId |-> in.studentId,
   studentName |-> in.studentName, amount |-> in.amount, upiId |-> in.studentId,
   paymentStatus |-> "pending", paymentMethod |-> <<"UPI">>,
   utrNumber |-> Undefined, paymentDate |-> NoDate]

\* new Payment({...}) with the schema defaults
NewPayment(transactionId, in) ==
  [transactionId |-> transactionId, studentId |-> in.studentId,
   studentName |-> in.studentName, amount |-> in.amount, upiId |-> UpiId,
   paymentStatus |-> "pending", paymentMethod |-> <<"UPI">>,
   utrNumber |-> Undefined, paymentDate |-> NoDate]

\* validation of paymentSchema on save
PaymentValid(p) ==
  /\ ~Missing(p.studentId)
  /\ ~Missing(p.studentName)
  /\ p.amount # <<>>

PendingPayments == Cardinality({r \in Reqs : req[r].op = "createUpi" /\ Running(r)})

\* POST /api/payments/create-upi: Transaction.findById and new Payment
CreateUpiFind(r) ==
  /\ Free(r)
  /\ \E id \in TxnIds, in \in PaymentInputs :
       LET s == Begin(r, "createUpi", id) IN
       IF ~Exists(transactions, id)
         THEN req' = Step(r, NotFound(s, "Transaction not found"))
         ELSE /\ Len(payments) + PendingPayments < MaxPayments
              /\ req' = Step(r, [s EXCEPT !.pc = "save", !.doc = NewPayment(id, in)])
  /\ UNCHANGED <<isDBConnected, now, books, transactions, payments>>

\* await payment.save(), and the response
CreateUpiSave(r) ==
  /\ req[r].op = "createUpi" /\ req[r].pc = "save"
  /\ IF PaymentValid(req[r].doc)
       THEN /\ payments' = Append(payments, req[r].doc)
            /\ req' = Step(r, Respond([req[r] EXCEPT !.tid = Len(payments) + 1], 200, ""))
       ELSE /\ payments' = payments
            /\ req' = Step(r, ServerError(req[r], "validation failed"))
  /\ UNCHANGED <<isDBConnected, now, books, transactions>>

\* the decimal digits of a natural number
RECURSIVE Digits(_)
Digits(n) ==
  LET d == <<"0", "1", "2", "3", "4", "5", "6", "7", "8", "9">>[(n % 10) + 1]
  IN IF n < 10 THEN <<d>> ELSE Append(Digits(n \div 10), d)

\* utrNumber || `UTR${Date.now()}`
UtrOf(utrNumber, t) ==
  IF Falsy(utrNumber) THEN <<"U", "T", "R">> \o Digits(t) ELSE utrNumber

\* faulty variant: a status verify must not assign
VerifiedStatusFailed == "failed"

\* the status verify assigns
VerifiedStatus == "completed"

\* POST /api/payments/verify: Payment.findById and the three assignments
VerifyFind(r) ==
  /\ Free(r)
  /\ \E id \in PaymentIds, utrNumber \in UtrInputs :
       LET s == Begin(r, "verify", id) IN
       req' = Step(r,
         IF ~Exists(payments, id)
           THEN NotFound(s, "Payment not found")
           ELSE [s EXCEPT !.pc = "save", !.orig = payments[id],
                   !.doc = [payments[id] EXCEPT !.paymentStatus = VerifiedStatus,
                              !.utrNumber = UtrOf(utrNumber, now),
                              !.paymentDate = now]])
  /\ UNCHANGED <<isDBConnected, now, books, transactions, payments>>

\* await payment.save()
VerifySavePayment(r) ==
  /\ req[r].op = "verify" /\ req[r].pc = "save"
  /\ payments' =
       [payments EXCEPT ![req[r].id] = SaveModified(@, req[r].orig, req[r].doc)]
  /\ req' = Step(r, [req[r] EXCEPT !.pc = "updateTxn"])
  /\ UNCHANGED <<isDBConnected, now, books, transactions>>

\* faulty variant: the update without the flag
FinePaidDateOnly(t, at) == [t EXCEPT !.finePaidDate = at]

\* the update verify applies to the linked transaction
FinePaidUpdate(t, at) == [t EXCEPT !.finePaid = TRUE, !.finePaidDate = at]

\* await Transaction.findByIdAndUpdate(payment.transactionId, {finePaid: true,
\* finePaidDate: new Date()}), and the response
VerifyUpdateTxn(r) ==
  /\ req[r].op = "verify" /\ req[r].pc = "updateTxn"
  /\ LET tid == req[r].doc.transactionId IN
     transactions' =
       IF Exists(transactions, tid)
         THEN [transactions EXCEPT ![tid] = FinePaidUpdate(@, now)]
         ELSE transactions
  /\ req' = Step(r, Respond(req[r], 200, ""))
  /\ UNCHANGED <<isDBConnected, now, books, payments>>

\* faulty variant: the date without the flag
PayFineDateOnly(t, at) == [t EXCEPT !.finePaidDate = at]

\* transaction.finePaid = true; transaction.finePaidDate = new Date()
PayFineAssign(t, at) == [t EXCEPT !.finePaid = TRUE, !.finePaidDate = at]

\* PUT /api/transactions/:id/pay-fine: findById and the two assignments
PayFineFind(r) ==
  /\ Free(r)
  /\ \E id \in TxnIds :
       LET s == Begin(r, "payFine", id) IN
       req' = Step(r,
         IF ~Exists(transactions, id)
           THEN NotFound(s, "Transaction not found")
           ELSE [s EXCEPT !.pc = "save", !.orig = transactions[id],
                   !.doc = PayFineAssign(transactions[id], now)])
  /\ UNCHANGED <<isDBConnected, now, books, transactions, payments>>

\* await transaction.save(), and the response
PayFineSave(r) ==
  /\ req[r].op = "payFine" /\ req[r].pc = "save"
  /\ transactions' =
       [transactions EXCEPT ![req[r].id] = SaveModified(@, req[r].orig, req[r].doc)]
  /\ req' = Step(r, Respond(req[r], 200, ""))
  /\ UNCHANGED <<isDBConnected, now, books, payments>>

(* --------------------------- specifications ---------------------------- *)

Events ==
  \/ ConnectResolved
  \/ ConnectedEvent
  \/ ErrorEvent

BookHandlers ==
  \/ \E r \in Reqs : ListBooksCheck(r)
  \/ \E r \in Reqs : ListBooksFind(r)
  \/ \E r \in Reqs : AddBookCheck(r)
  \/ \E r \in Reqs : AddBookSave(r)

BorrowHandlers ==
  \/ \E r \in Reqs : BorrowFind(r)
  \/ \E r \in Reqs : BorrowSaveTxn(r)
  \/ \E r \in Reqs : BorrowSaveBook(r)

ReturnHandlers ==
  \/ \E r \in Reqs : ReturnFind(r)
  \/ \E r \in Reqs : ReturnSaveTxn(r)
  \/ \E r \in Reqs : ReturnIncBook(r)

PaymentHandlers ==
  \/ \E r \in Reqs : CreateUpiFind(r)
  \/ \E r \in Reqs : CreateUpiSave(r)
  \/ \E r \in Reqs : VerifyFind(r)
  \/ \E r \in Reqs : VerifySavePayment(r)
  \/ \E r \in Reqs : VerifyUpdateTxn(r)
  \/ \E r \in Reqs : PayFineFind(r)
  \/ \E r \in Reqs : PayFineSave(r)

Next ==
  \/ Events
  \/ Tick
  \/ BookHandlers
  \/ BorrowHandlers
  \/ ReturnHandlers
  \/ PaymentHandlers

\* the whole server: every handler, interleaved at the awaits
Spec == Init /\ [][Next]_vars

\* the whole server with the requests arriving one at a time: a request
\* starts only when no handler is running
NextSeq ==
  \/ Events
  \/ Tick
  \/ InFlight = 0 /\ \E r \in Reqs : ListBooksCheck(r)
  \/ \E r \in Reqs : ListBooksFind(r)
  \/ InFlight = 0 /\ \E r \in Reqs : AddBookCheck(r)
  \/ \E r \in Reqs : AddBookSave(r)
  \/ InFlight = 0 /\ \E r \in Reqs : BorrowFind(r)
  \/ \E r \in Reqs : BorrowSaveTxn(r)
  \/ \E r \in Reqs : BorrowSaveBook(r)
  \/ InFlight = 0 /\ \E r \in Reqs : ReturnFind(r)
  \/ \E r \in Reqs : ReturnSaveTxn(r)
  \/ \E r \in Reqs : ReturnIncBook(r)
  \/ InFlight = 0 /\ \E r \in Reqs : CreateUpiFind(r)
  \/ \E r \in Reqs : CreateUpiSave(r)
  \/ InFlight = 0 /\ \E r \in Reqs : VerifyFind(r)
  \/ \E r \in Reqs : VerifySavePayment(r)
  \/ \E r \in Reqs : VerifyUpdateTxn(r)
  \/ InFlight = 0 /\ \E r \in Reqs : PayFineFind(r)
  \/ \E r \in Reqs : PayFineSave(r)

SpecSeq == Init /\ [][NextSeq]_vars

\* the server once the database is connected and the catalogue is stocked:
\* the state Init reaches by ConnectResolved and one accepted POST /api/books
\* for each book
InitStocked ==
  /\ isDBConnected = TRUE
  /\ now = 0
  /\ books = [b \in 1..MaxBooks |-> NewBook(<<"T", " ">>, <<"A">>, Undefined)]
  /\ transactions = <<>>
  /\ payments = <<>>
  /\ req = [r \in Reqs |-> IdleReq]

\* borrow and return requests interleaved at their awaits while the clock
\* runs, on the stocked catalogue
NextRace ==
  \/ Tick
  \/ BorrowHandlers
  \/ ReturnHandlers

SpecRace == InitStocked /\ [][NextRace]_vars

\* payment creation and verification requests interleaved at their awaits,
\* on the transactions of books borrowed from the stocked catalogue
NextPay ==
  \/ BorrowHandlers
  \/ \E r \in Reqs : CreateUpiFind(r)
  \/ \E r \in Reqs : CreateUpiSave(r)
  \/ \E r \in Reqs : VerifyFind(r)
  \/ \E r \in Reqs : VerifySavePayment(r)
  \/ \E r \in Reqs : VerifyUpdateTxn(r)

SpecPay == InitStocked /\ [][NextPay]_vars

\* borrow and return requests, one at a time, on the stocked catalogue, with
\* a database whose second write may fail
NextFail ==
  \/ Tick
  \/ InFlight = 0 /\ \E r \in Reqs : BorrowFind(r)
  \/ \E r \in Reqs : BorrowSaveTxn(r)
  \/ \E r \in Reqs : BorrowSaveBook(r)
  \/ \E r \in Reqs : BorrowSaveBookFails(r)
  \/ InFlight = 0 /\ \E r \in Reqs : ReturnFind(r)
  \/ \E r \in Reqs : ReturnSaveTxn(r)
  \/ \E r \in Reqs : ReturnIncBook(r)

SpecFail == InitStocked /\ [][NextFail]_vars

\* borrow and return requests, one at a time, on the stocked catalogue, where
\* no client asks for the return of a transaction that is already returned
NextOnce ==
  \/ Tick
  \/ InFlight = 0 /\ \E r \in Reqs : BorrowFind(r)
  \/ \E r \in Reqs : BorrowSaveTxn(r)
  \/ \E r \in Reqs : BorrowSaveBook(r)
  \/ /\ InFlight = 0
     /\ \E r \in Reqs :
          /\ ReturnFind(r)
          /\ Exists(transactions, req'[r].id)
               => transactions[req'[r].id].status = "borrowed"
  \/ \E r \in Reqs : ReturnSaveTxn(r)
  \/ \E r \in Reqs : ReturnIncBook(r)

SpecOnce == InitStocked /\ [][NextOnce]_vars

(* ----------------------------- properties ------------------------------ *)

\* slot r takes a request of route op in this step
Started(r, op) == ~Running(r) /\ req'[r].op = op /\ req'[r].pc # "idle"

\* the handler of route op in slot r runs its segment pc in this step
Runs(r, op, pc) == req[r].op = op /\ req[r].pc = pc /\ req'[r] # req[r]

\* all three student fields of a transaction are given
StudentGiven(t) ==
  /\ t.student.studentId \notin {Undefined, <<>>}
  /\ t.student.name \notin {Undefined, <<>>}
  /\ t.student.department \notin {Undefined, <<>>}

\* a borrow request on an existing book with positive availability runs to
\* a success response, one new "borrowed" transaction and one copy less;
\* with needFields, only for requests that give the three student fields
BorrowIssues(r, needFields) ==
  /\ ( /\ Started(r, "borrow")
       /\ Exists(books, req'[r].id)
       /\ ToNumber(books[req'[r].id].available) > 0 )
     => req'[r].pc = "saveTxn"
  /\ ( /\ Runs(r, "borrow", "saveTxn")
       /\ needFields => StudentGiven(req[r].doc) )
     => /\ req'[r].pc = "saveBook"
        /\ Len(transactions') = Len(transactions) + 1
        /\ LET t == transactions'[req'[r].tid] IN
           /\ req'[r].tid = Len(transactions')
           /\ t.book = req[r].id
           /\ t.status = "borrowed"
           /\ t.fineAmount = 0
           /\ t.finePaid = FALSE
  /\ Runs(r, "borrow", "saveBook")
     => /\ req'[r].pc = "done"
        /\ req'[r].resp = 200
        /\ Len(transactions') = req[r].n0 + 1
        /\ ToNumber(books'[req[r].id].available)
             = ToNumber(books[req[r].id].available) - 1
        /\ \A b \in 1..Len(books) : b # req[r].id => books'[b] = books[b]

\* C1 (as amended): with the requests run one at a time, every borrow request
\* that gives studentId, studentName and studentDepartment, on an existing book
\* whose availability is positive, succeeds, creates exactly one Transaction
\* (status "borrowed", fineAmount 0, finePaid false, referencing that book)
\* and lowers the book's availability by exactly 1.
C1_BorrowIssuesOneCopy == [][\A r \in Reqs : BorrowIssues(r, TRUE)]_vars

\* C1 (as stated): the same of every borrow request on an existing book whose
\* availability is positive, whatever its student fields.
C1_AsStated == [][\A r \in Reqs : BorrowIssues(r, FALSE)]_vars

C1_Witness ==
  \E r \in Reqs :
    /\ req[r].op = "borrow" /\ req[r].pc = "done" /\ req[r].resp = 200
    /\ Len(transactions) = 1
    /\ transactions[req[r].tid].status = "borrowed"
    /\ transactions[req[r].tid].book = req[r].id
    /\ books[req[r].id].available = FALSE

\* C2: a borrow request on a book whose availability is <= 0 is answered 400
\* "Book not available" at once, and the step changes no transaction and no
\* book.
C2_UnavailableRejected ==
  [][\A r \in Reqs :
       ( /\ Started(r, "borrow")
         /\ Exists(books, req'[r].id)
         /\ ToNumber(books[req'[r].id].available) <= 0 )
       => /\ req'[r].pc = "done"
          /\ req'[r].resp = 400
          /\ req'[r].error = "Book not available"
          /\ transactions' = transactions
          /\ books' = books]_vars

C2_Witness ==
  \E r \in Reqs :
    /\ req[r].op = "borrow" /\ req[r].pc = "done" /\ req[r].resp = 400
    /\ Exists(books, req[r].id)
    /\ ~books[req[r].id].available
    /\ \E i \in 1..Len(transactions) : transactions[i].book = req[r].id

\* the return fields of transaction t follow from its two dates
FineFollows(t) ==
  LET late == t.returnDate - t.dueDate IN
  /\ t.daysLate >= 0
  /\ late < DayMs => t.daysLate = 0
  /\ late >= DayMs =>
       t.daysLate * DayMs <= late /\ late < (t.daysLate + 1) * DayMs
  /\ t.fineAmount = t.daysLate * 5
  /\ t.status = "returned_late" <=> t.daysLate > 0
  /\ t.status \in {"returned", "returned_late"}

\* C3: with the requests run one at a time, every return computes, and every
\* returned transaction holds, daysLate = max(0, floor((returnDate - dueDate)
\* / one day)), fineAmount = daysLate * 5, and status "returned_late" if
\* daysLate > 0 and "returned" otherwise.
C3_ReturnFine ==
  /\ \A i \in 1..Len(transactions) :
       transactions[i].returnDate # NoDate => FineFollows(transactions[i])
  /\ \A r \in Reqs :
       req[r].op = "return" /\ Running(r) => FineFollows(req[r].doc)

C3_Witness ==
  \E i \in 1..Len(transactions) :
    /\ transactions[i].returnDate = transactions[i].dueDate + DayMs
    /\ transactions[i].daysLate = 1
    /\ transactions[i].fineAmount = 5
    /\ transactions[i].status = "returned_late"

\* C4: round trip, with the requests run one at a time: the first return of
\* a borrowed book, made no later than the due date, leaves fineAmount = 0 and
\* status "returned" and gives back the copy the borrow took, so that the
\* book's availability is again what it was before the borrow.
C4_RoundTripRestores ==
  [][\A r \in Reqs :
       ( /\ Runs(r, "return", "incBook")
         /\ req[r].orig.status = "borrowed"
         /\ req[r].doc.returnDate <= req[r].doc.dueDate )
       => /\ transactions'[req[r].id].fineAmount = 0
          /\ transactions'[req[r].id].status = "returned"
          /\ ToNumber(books'[req[r].doc.book].available)
               = ToNumber(books[req[r].doc.book].available) + 1]_vars

\* C5: in every state reached by interleaved borrow and return requests, no
\* book's availability is negative, and no borrow handler that has passed the
\* availability check is about to assign a negative availability.
C5_NeverNegative ==
  /\ \A b \in 1..Len(books) : ToNumber(books[b].available) >= 0
  /\ \A r \in Reqs :
       req[r].op = "borrow" /\ req[r].pc = "saveBook"
         => Decrement(req[r].orig.available) >= 0

C5_Witness ==
  \E r \in Reqs :
    /\ req[r].op = "borrow" /\ req[r].pc = "saveBook"
    /\ req[r].orig.available
    /\ ~books[req[r].id].available
    /\ \E i \in 1..Len(transactions) : transactions[i].status # "borrowed"

\* the transactions that reference book b
TxnsOf(b) == {i \in 1..Len(transactions) : transactions[i].book = b}

\* C6: a borrow that passed the availability check is not checked again: when
\* it comes to save the book after another borrow of the same copy has
\* already written the decrement, it still succeeds, and the book then has
\* two transactions for its one copy.
C6_BothBorrowsSucceed ==
  [][\A r \in Reqs :
       ( /\ Runs(r, "borrow", "saveBook")
         /\ ~books[req[r].id].available )
       => /\ req'[r].pc = "done"
          /\ req'[r].resp = 200
          /\ ~books'[req[r].id].available
          /\ transactions' = transactions
          /\ Cardinality(TxnsOf(req[r].id)) >= 2]_vars

C6_Witness ==
  \E r \in Reqs :
    /\ req[r].op = "borrow" /\ req[r].pc = "done" /\ req[r].resp = 200
    /\ Len(books) = 1
    /\ Len(transactions) = 2
    /\ \A i \in 1..2 :
         transactions[i].book = req[r].id /\ transactions[i].status = "borrowed"

\* C7: every return call, also one on a transaction that is already
\* returned, increments the referenced book's availability by one, so that
\* two calls on the same transaction increment it twice.
C7_EachReturnIncrements ==
  [][\A r \in Reqs :
       Runs(r, "return", "incBook")
         => /\ req'[r].resp = 200
            /\ ToNumber(books'[req[r].doc.book].available)
                 = ToNumber(books[req[r].doc.book].available) + 1]_vars

\* C8: with the requests run one at a time, a verify request on an existing
\* payment is never turned down; it sets the payment's status to "completed"
\* and the linked transaction's finePaid to true, whatever the amount, the
\* fineAmount and the transaction's status.
C8_VerifySettles ==
  [][\A r \in Reqs :
       /\ Started(r, "verify") /\ Exists(payments, req'[r].id)
            => req'[r].pc = "save"
       /\ Runs(r, "verify", "save")
            => /\ req'[r].pc = "updateTxn"
               /\ payments'[req[r].id].paymentStatus = "completed"
       /\ Runs(r, "verify", "updateTxn")
            => /\ req'[r].pc = "done"
               /\ req'[r].resp = 200
               /\ payments'[req[r].id].paymentStatus = "completed"
               /\ transactions'[payments[req[r].id].transactionId].finePaid]_vars

C8_Witness ==
  \E r \in Reqs :
    /\ req[r].op = "verify" /\ req[r].pc = "done" /\ req[r].resp = 200
    /\ LET p == payments[req[r].id]
           t == transactions[p.transactionId]
       IN /\ p.paymentStatus = "completed"
          /\ p.amount = <<5>>
          /\ t.fineAmount = 0
          /\ t.status = "borrowed"
          /\ t.finePaid

\* C9: under interleaved create and verify requests, every payment is
\* created "pending", every payment's status is pending or completed in
\* every state, no payment is ever removed, and a completed payment stays
\* completed.
C9_PaymentStatus ==
  /\ [](\A i \in 1..Len(payments) :
          payments[i].paymentStatus \in {"pending", "completed"})
  /\ [][/\ Len(payments') >= Len(payments)
        /\ \A i \in 1..Len(payments) :
             payments[i].paymentStatus = "completed"
               => payments'[i].paymentStatus = "completed"
        /\ \A i \in (Len(payments) + 1)..Len(payments') :
             payments'[i].paymentStatus = "pending"]_vars

C9_Witness ==
  \E r \in Reqs :
    /\ req[r].op = "verify" /\ req[r].pc = "save"
    /\ req[r].orig.paymentStatus = "pending"
    /\ payments[req[r].id].paymentStatus = "completed"

\* the POST /api/books request in slot r gives no title or no author
WithoutTitleOrAuthor(s) ==
  s.body.title \in {Undefined, <<>>} \/ s.body.author \in {Undefined, <<>>}

NamesNoRecord(r) ==
  \/ Started(r, "borrow") /\ ~Exists(books, req'[r].id)
  \/ /\ \E op \in {"return", "payFine", "createUpi"} : Started(r, op)
     /\ ~Exists(transactions, req'[r].id)
  \/ Started(r, "verify") /\ ~Exists(payments, req'[r].id)

C12_PayFineDirect ==
  [][\A r \in Reqs :
       /\ Started(r, "payFine") /\ Exists(transactions, req'[r].id)
            => /\ req'[r].pc = "save"
               /\ UNCHANGED <<books, transactions, payments>>
       /\ Runs(r, "payFine", "save")
            => /\ req'[r].pc = "done"
               /\ req'[r].resp = 200
               /\ transactions'[req[r].id].finePaid
               /\ transactions'[req[r].id].status = transactions[req[r].id].status
               /\ transactions'[req[r].id].fineAmount
                    = transactions[req[r].id].fineAmount
               /\ transactions'[req[r].id].daysLate
                    = transactions[req[r].id].daysLate
               /\ Len(transactions') = Len(transactions)
               /\ payments' = payments
               /\ books' = books]_vars

C12_Witness ==
  \E r \in Reqs :
    /\ req[r].op = "payFine" /\ req[r].pc = "done" /\ req[r].resp = 200
    /\ transactions[req[r].id].finePaid
    /\ transactions[req[r].id].fineAmount > 0
    /\ \A i \in 1..Len(payments) : payments[i].paymentStatus = "pending"

\* C13: while the connected flag is false, a list-books and a create-book
\* request are answered 503 at once, having read no book and persisted
\* nothing; the flag is true after the connect resolves and after a
\* 'connected' event, false after an 'error' event, and nothing else changes it.
C13_Gate503 ==
  [][/\ \A r \in Reqs :
          (Started(r, "listBooks") \/ Started(r, "addBook")) /\ ~isDBConnected
            => /\ req'[r].pc = "done"
               /\ req'[r].resp = 503
               /\ req'[r].doc = NoDoc
               /\ req'[r].op = "listBooks" => req'[r].body = NoDoc
               /\ UNCHANGED <<books, transactions, payments>>
     /\ ConnectResolved \/ ConnectedEvent => isDBConnected'
     /\ ErrorEvent => ~isDBConnected'
     /\ isDBConnected' # isDBConnected
          => /\ ConnectResolved \/ ConnectedEvent \/ ErrorEvent
             /\ UNCHANGED <<books, transactions, payments>>]_vars

C13_Witness ==
  \E r \in Reqs :
    /\ req[r].op = "listBooks" /\ req[r].pc = "done" /\ req[r].resp = 503
    /\ ~isDBConnected
    /\ Len(books) > 0

\* C14: with the requests run one at a time, a return of a transaction that
\* is already returned is processed like the first: the save stores the new
\* returnDate and the daysLate, fineAmount and status computed from it and
\* the unchanged dueDate, so that the status never goes back from
\* "returned_late" to "returned" and the fine never shrinks, while finePaid
\* and finePaidDate stay as they were.
C14_ReturnAgain ==
  [][\A r \in Reqs :
       /\ ( /\ Started(r, "return")
            /\ Exists(transactions, req'[r].id)
            /\ transactions[req'[r].id].status # "borrowed" )
          => req'[r].pc = "saveTxn" /\ req'[r].doc.returnDate = now
       /\ ( /\ Runs(r, "return", "saveTxn")
            /\ transactions[req[r].id].status # "borrowed" )
          => LET t == transactions[req[r].id]
                 u == transactions'[req[r].id]
                 late == u.returnDate - t.dueDate
             IN /\ u.returnDate = req[r].doc.returnDate
                /\ u.returnDate >= t.returnDate
                /\ u.dueDate = t.dueDate
                /\ u.daysLate = IF late < DayMs THEN 0 ELSE late \div DayMs
                /\ u.fineAmount = u.daysLate * 5
                /\ u.status = IF u.daysLate > 0 THEN "returned_late" ELSE "returned"
                /\ u.fineAmount >= t.fineAmount
                /\ t.status = "returned_late" => u.status = "returned_late"
                /\ u.finePaid = t.finePaid
                /\ u.finePaidDate = t.finePaidDate]_vars

C14_Witness ==
  \E r \in Reqs :
    /\ req[r].op = "return" /\ req[r].pc = "incBook"
    /\ req[r].orig.status = "returned"
    /\ req[r].orig.fineAmount = 0
    /\ req[r].orig.finePaid
    /\ transactions[req[r].id].status = "returned_late"
    /\ transactions[req[r].id].fineAmount = 5
    /\ transactions[req[r].id].finePaid

\* a create-upi request on an existing transaction runs to a success
\* response and one new payment: pending, with the fixed upiId and the
\* amount of the request, while every transaction and every book stays as it
\* was; with needFields, only for requests that give studentId, studentName
\* and amount
CreatesPayment(r, needFields) ==
  /\ Started(r, "createUpi") /\ Exists(transactions, req'[r].id)
       => req'[r].pc = "save" /\ UNCHANGED <<books, transactions, payments>>
  /\ ( /\ Runs(r, "createUpi", "save")
       /\ needFields =>
            /\ req[r].doc.studentId \notin {Undefined, <<>>}
            /\ req[r].doc.studentName \notin {Undefined, <<>>}
            /\ req[r].doc.amount # <<>> )
     => /\ req'[r].pc = "done"
        /\ req'[r].resp = 200
        /\ Len(payments') = Len(payments) + 1
        /\ \A i \in 1..Len(payments) : payments'[i] = payments[i]
        /\ LET p == payments'[Len(payments')] IN
           /\ p.transactionId = req[r].id
           /\ p.paymentStatus = "pending"
           /\ p.upiId = <<"raitlibrary@axisbank">>
           /\ p.amount = req[r].doc.amount
        /\ transactions' = transactions
        /\ books' = books

\* C15 (as amended): with the requests run one at a time, a create-upi
\* request that gives studentId, studentName and amount, for an existing
\* transaction, adds exactly one payment with status "pending", the fixed
\* upiId and the amount of the request, whatever the transaction's
\* fineAmount, and leaves every transaction and every book unchanged.
C15_CreatePayment == [][\A r \in Reqs : CreatesPayment(r, TRUE)]_vars

\* C15 (as stated): the same of every create-upi request for an existing
\* transaction.
C15_AsStated == [][\A r \in Reqs : CreatesPayment(r, FALSE)]_vars

C15_Witness ==
  \E r \in Reqs :
    /\ req[r].op = "createUpi" /\ req[r].pc = "done" /\ req[r].resp = 200
    /\ Len(payments) = 1
    /\ payments[1].paymentStatus = "pending"
    /\ payments[1].amount = <<5>>
    /\ transactions[payments[1].transactionId].fineAmount = 0
    /\ ~transactions[payments[1].transactionId].finePaid

\* C16: the transaction that a successful borrow creates has dueDate =
\* borrowDate + the requested number of days (14 when the request names
\* none): the two dates are that many whole days apart.
C16_DueDate ==
  [][\A r \in Reqs :
       Runs(r, "borrow", "saveTxn") /\ req'[r].pc = "saveBook"
         => LET t == transactions'[req'[r].tid] IN
            (t.dueDate - t.borrowDate) \div DayMs = req[r].body.days]_vars

\* C17: borrow and return write the transaction first and the book second,
\* in two separate steps: borrow stores the transaction while the book is
\* untouched, return stores the returned status while the book is untouched;
\* when the second write fails the request is answered 500, the transaction
\* write remains and the book's availability is unchanged.
C17_TransactionFirst ==
  [][\A r \in Reqs :
       /\ Runs(r, "borrow", "saveTxn") /\ req'[r].pc = "saveBook"
            => /\ transactions'[req'[r].tid].status = "borrowed"
               /\ books' = books
       /\ Runs(r, "borrow", "saveBook")
            => /\ req'[r].pc = "done"
               /\ transactions' = transactions
               /\ transactions[req[r].tid].book = req[r].id
               /\ \/ /\ req'[r].resp = 200
                     /\ ToNumber(books'[req[r].id].available)
                          = ToNumber(books[req[r].id].available) - 1
                  \/ /\ req'[r].resp = 500
                     /\ books' = books
       /\ Runs(r, "return", "saveTxn")
            => /\ req'[r].pc = "incBook"
               /\ transactions'[req[r].id].status \in {"returned", "returned_late"}
               /\ books' = books
       /\ Runs(r, "return", "incBook")
            => /\ req'[r].pc = "done"
               /\ transactions' = transactions
               /\ transactions[req[r].id].status \in {"returned", "returned_late"}
               /\ \/ /\ req'[r].resp = 200
                     /\ ToNumber(books'[req[r].doc.book].available)
                          = ToNumber(books[req[r].doc.book].available) + 1
                  \/ /\ req'[r].resp = 500
                     /\ books' = books]_vars

C17_Witness ==
  \E r \in Reqs :
    /\ req[r].op = "borrow" /\ req[r].pc = "done" /\ req[r].resp = 500
    /\ req[r].tid = 2
    /\ Len(transactions) = 2
    /\ transactions[2].status = "borrowed"
    /\ transactions[1].status = "returned"
    /\ books[req[r].id].available

\* C18: finePaid is monotone: in no step of a borrow, return, create-upi,
\* verify or pay-fine request does a transaction whose finePaid is true get
\* finePaid false, also not when a return raises its fineAmount; and no
\* transaction disappears.
C18_FinePaidMonotone ==
  [][/\ Len(transactions') >= Len(transactions)
     /\ \A i \in 1..Len(transactions) :
          transactions[i].finePaid => transactions'[i].finePaid]_vars

C18_Witness ==
  \E i \in 1..Len(transactions) :
    /\ transactions[i].finePaid
    /\ transactions[i].finePaidDate # NoDate
    /\ transactions[i].returnDate > transactions[i].finePaidDate
    /\ transactions[i].fineAmount > 0

\* C19: under interleaved borrow and return requests, every transaction's
\* status is borrowed, returned or returned_late in every state (never
\* overdue); a transaction is created as borrowed; a transaction that is not
\* borrowed never becomes borrowed again; and no transaction is deleted.
C19_StatusLifecycle ==
  /\ [](\A i \in 1..Len(transactions) :
          transactions[i].status \in {"borrowed", "returned", "returned_late"})
  /\ [][/\ Len(transactions') >= Len(transactions)
        /\ \A i \in 1..Len(transactions) :
             /\ transactions[i].status # "borrowed"
                  => transactions'[i].status # "borrowed"
             /\ transactions'[i].book = transactions[i].book
        /\ \A i \in (Len(transactions) + 1)..Len(transactions') :
             transactions'[i].status = "borrowed"]_vars

C19_Witness ==
  \E r \in Reqs :
    /\ req[r].op = "return" /\ req[r].pc = "incBook"
    /\ req[r].orig.status = "returned_late"
    /\ transactions[req[r].id].status = "returned_late"
    /\ \E i \in 1..Len(transactions) : transactions[i].status = "borrowed"

\* the copies of book b: its availability plus its borrowed transactions
Copies(b) ==
  ToNumber(books[b].available)
    + Cardinality({i \in TxnsOf(b) : transactions[i].status = "borrowed"})

\* C20: conservation of copies: with the requests run one at a time to
\* completion, no storage failure and every transaction returned at most once,
\* whenever no request is running every book's availability plus the number
\* of its borrowed transactions is the availability it was created with.
C20_CopiesConserved ==
  InFlight = 0 => \A b \in 1..Len(books) : Copies(b) = ToNumber(TRUE)

====
